---- MODULE Spec2Model ----
(***************************************************************************)
(* Fee disclosure / charging flow of the FATCA page, the fee endpoints of  *)
(* the API client, and the Zakat calculator of the wealth platform user    *)
(* app.                                                                    *)
(*                                                                         *)
(* Money: fee amounts are in cents (19.99 -> 1999); Zakat asset and        *)
(* liability values are whole dollars, zakatDue is in 1/1000 dollar so     *)
(* that 2.5% of a whole-dollar amount is an integer (net * 25).            *)
(***************************************************************************)
EXTENDS Integers, Sequences, FiniteSets, Bags, TLC

\* null of a record-valued field (a record never equals it)
NULL == [isNull |-> TRUE]

(***************************************************************************)
(* Bounds of the model                                                     *)
(***************************************************************************)
\* Zakat inputs typed into an InputRow reach MaxDelta past the boundary value
MaxDelta == 1
\* number of updateAsset / updateLiability calls in one run
MaxUpdates == 2
\* quantities a caller of the API client passes
MaxQuantity == 2
\* distinct outcomes of Math.random in the mock charge id
MaxRandom == 2
\* calls a direct caller of the API client makes in one run
MaxApiCalls == 3
\* presses of 'Generate Certified FATCA Report' in one run
MaxOpens == 2
\* presses of 'Accept & Continue' in one run
MaxCharges == 3
\* highest gold price per gram, in cents, looked at
MaxGoldPrice == 20000

\* calls of login in one run
MaxLogins == 2
\* calls of refreshToken in one run
MaxRefreshes == 1

(***************************************************************************)
(* Zakat calculator: tax/zakat/page.tsx                                    *)
(***************************************************************************)
nisab_gold_price == 2000
nisab_threshold == 5460
NisabGrams == 85

AssetKeys ==
    {"cash_bank", "gold_silver", "investments", "business_assets",
     "receivables", "real_estate_rental"}

LiabilityKeys == {"short_term_debts", "loans", "credit_cards"}

mockAssets ==
    [k \in AssetKeys |->
        CASE k = "cash_bank" -> 50000
          [] k = "gold_silver" -> 12000
          [] k = "investments" -> 200000
          [] k = "business_assets" -> 0
          [] k = "receivables" -> 5000
          [] OTHER -> 0]

mockLiabilities ==
    [k \in LiabilityKeys |->
        CASE k = "short_term_debts" -> 15000
          [] k = "loans" -> 0
          [] OTHER -> 2000]

\* the tax route's mock answer (zakat block)
routeZakatBlock ==
    [enabled |-> TRUE, zakatable_wealth |-> 575000, zakat_due |-> 14375,
     nisab_threshold |-> 5500]

\* the short-term debt that brings the mock data's net wealth down to exactly
\* the nisab threshold
BoundaryDebt == 50000 + 12000 + 200000 + 5000 - 2000 - nisab_threshold

\* values an InputRow can deliver: Number(e.target.value) || 0
InputValues ==
    {0, nisab_threshold} \cup {BoundaryDebt + d : d \in 0..MaxDelta}

VARIABLES
    assets, liabilities,
    totalAssets, totalLiabilities, netZakatableWealth, nisabMet, zakatDue,
    nisabUsed, lastUpdate, nUpdates, taxRouteResponse

zakatVars ==
    <<assets, liabilities, totalAssets, totalLiabilities, netZakatableWealth,
      nisabMet, zakatDue, nisabUsed, lastUpdate, nUpdates, taxRouteResponse>>

\* Object.values(obj).reduce((sum, val) => sum + val, 0)
RECURSIVE ReduceSum(_, _)
ReduceSum(obj, keys) ==
    IF keys = {} THEN 0
    ELSE LET k == CHOOSE x \in keys : TRUE
         IN obj[k] + ReduceSum(obj, keys \ {k})

ObjectValuesSum(obj) == ReduceSum(obj, DOMAIN obj)

NetZakatableWealth(a, l) == ObjectValuesSum(a) - ObjectValuesSum(l)

NisabMet_strict(net) == net > nisab_threshold

NisabMet(net) == net >= nisab_threshold

\* netZakatableWealth * 0.025, in 1/1000 dollar
ZakatDue(net) == IF NisabMet(net) THEN net * 25 ELSE 0

\* { ...prev, [key]: value }
Spread_dropsOthers(prev, key, value) ==
    [k \in DOMAIN prev |-> IF k = key THEN value ELSE 0]

Spread(prev, key, value) == [prev EXCEPT ![key] = value]

\* the body of ZakatCalculatorPage up to the handlers: the derived values of
\* one render from the state a and l
Render(a, l) ==
    /\ totalAssets' = ObjectValuesSum(a)
    /\ totalLiabilities' = ObjectValuesSum(l)
    /\ netZakatableWealth' = NetZakatableWealth(a, l)
    /\ nisabMet' = NisabMet(NetZakatableWealth(a, l))
    /\ zakatDue' = ZakatDue(NetZakatableWealth(a, l))
    /\ nisabUsed' = nisab_threshold

InitZakat ==
    /\ assets = mockAssets
    /\ liabilities = mockLiabilities
    /\ totalAssets = ObjectValuesSum(mockAssets)
    /\ totalLiabilities = ObjectValuesSum(mockLiabilities)
    /\ netZakatableWealth = NetZakatableWealth(mockAssets, mockLiabilities)
    /\ nisabMet = NisabMet(NetZakatableWealth(mockAssets, mockLiabilities))
    /\ zakatDue = ZakatDue(NetZakatableWealth(mockAssets, mockLiabilities))
    /\ nisabUsed = nisab_threshold
    /\ lastUpdate = NULL
    /\ nUpdates = 0
    /\ taxRouteResponse = NULL

updateAsset(key, value) ==
    /\ nUpdates < MaxUpdates
    /\ assets' = Spread(assets, key, value)
    /\ liabilities' = liabilities
    /\ Render(assets', liabilities')
    /\ lastUpdate' = [map |-> "assets", key |-> key, value |-> value]
    /\ nUpdates' = nUpdates + 1
    /\ UNCHANGED taxRouteResponse

updateLiability(key, value) ==
    /\ nUpdates < MaxUpdates
    /\ liabilities' = Spread(liabilities, key, value)
    /\ assets' = assets
    /\ Render(assets', liabilities')
    /\ lastUpdate' = [map |-> "liabilities", key |-> key, value |-> value]
    /\ nUpdates' = nUpdates + 1
    /\ UNCHANGED taxRouteResponse

\* GET of the tax route: a constant answer
TaxRouteGET ==
    /\ taxRouteResponse = NULL
    /\ taxRouteResponse' = routeZakatBlock
    /\ UNCHANGED <<assets, liabilities, totalAssets, totalLiabilities,
                   netZakatableWealth, nisabMet, zakatDue, nisabUsed, lastUpdate,
                   nUpdates>>

UpdateAssetStep == \E k \in AssetKeys, v \in InputValues : updateAsset(k, v)

UpdateLiabilityStep == \E k \in LiabilityKeys, v \in InputValues : updateLiability(k, v)

(***************************************************************************)
(* API client: ApiClient.request, calculateFee, chargeFee, getMockData     *)
(***************************************************************************)
FATCA == "TAX_REPORT_FATCA"

FeeCodes == {FATCA, "TAX_REPORT_CRS"}

Quantities == 1..MaxQuantity

\* 'mock_charge_' + Math.random().toString(36).substring(7)
RandomSuffixes == 1..MaxRandom

VARIABLES
    IS_DEMO_MODE,       \* deployment setting, fixed for a run
    backendCharges,     \* the backend's Charge rows
    apiCalc, apiCharge, \* last settled calculateFee / chargeFee of a direct caller
    nApiCalls

apiVars ==
    <<IS_DEMO_MODE, backendCharges, apiCalc, apiCharge, nApiCalls>>

\* options of request(): body is the caller's object, not yet stringified
PostOptions(data) == [method |-> "POST", body |-> [type |-> "object", value |-> data]]

\* JSON.parse(x): a string holding JSON parses; an object is first coerced to
\* the string "[object Object]", which is no JSON, and parse throws
JSONparse_ofObject(x) == [threw |-> FALSE, value |-> x.value]

JSONparse(x) ==
    IF x.type = "string" THEN [threw |-> FALSE, value |-> x.value]
    ELSE [threw |-> TRUE, value |-> NULL]

\* the promise a call settles to
Resolved(v) == [outcome |-> "resolved", value |-> v, error |-> "none"]

Rejected(e) == [outcome |-> "rejected", value |-> NULL, error |-> e]

MockCalculation(body) ==
    [fee_amount |-> IF body.fee_code = FATCA THEN 1999 ELSE 999,
     currency |-> "USD", chargeable_to |-> "end_user", is_optional |-> TRUE]

MockCharge(rnd) ==
    [charge_id |-> <<"mock_charge_", rnd>>, status |-> "captured",
     amount |-> 1999, currency |-> "USD"]

\* getMockData(endpoint, options); rnd is the draw of Math.random
getMockData(endpoint, options, rnd) ==
    IF endpoint = "/fees/calculate"
    THEN LET parsed == JSONparse(options.body)
         IN IF parsed.threw THEN Rejected("SyntaxError")
            ELSE Resolved(MockCalculation(parsed.value))
    ELSE IF endpoint = "/fees/charge" THEN Resolved(MockCharge(rnd))
    ELSE Resolved(NULL)

\* what fetch does: it throws, or it delivers the backend's response
FetchThrows == [kind |-> "throw", ok |-> FALSE, body |-> NULL, error |-> "none"]

FetchResponse(ok, body, error) ==
    [kind |-> "response", ok |-> ok, body |-> body, error |-> error]

\* ApiClient.request from the fetch on
request(endpoint, options, net, demo, rnd) ==
    IF net.kind = "throw"
    THEN IF demo THEN getMockData(endpoint, options, rnd)
         ELSE Rejected("NetworkError")
    ELSE IF ~net.ok THEN Rejected(net.error)
    ELSE Resolved(net.body)

(***************************************************************************)
(* Backend fee service: POST /fees/calculate and POST /fees/charge         *)
(***************************************************************************)
Catalog ==
    [code \in {FATCA} |->
        [pricing |-> "flat", rate |-> 1999, is_optional |-> TRUE,
         chargeable_to |-> "end_user", currency |-> "USD"]]

BackendCalculate(data) ==
    IF data.fee_code \notin DOMAIN Catalog
    THEN FetchResponse(FALSE, NULL, "UnknownFeeCode")
    ELSE IF data.quantity <= 0
    THEN FetchResponse(FALSE, NULL, "InvalidQuantity")
    ELSE IF data.base_amount < 0
    THEN FetchResponse(FALSE, NULL, "NegativeBaseAmount")
    ELSE FetchResponse(TRUE,
            [fee_amount |-> Catalog[data.fee_code].rate * data.quantity,
             currency |-> Catalog[data.fee_code].currency,
             chargeable_to |-> Catalog[data.fee_code].chargeable_to,
             is_optional |-> Catalog[data.fee_code].is_optional],
            "none")

\* the idempotency key of a charge request: the business event it is for
IdempotencyKey(data) == <<data.fee_code, data.quantity, data.reference_type>>

ChargeRecord(data, status) ==
    [key |-> IdempotencyKey(data),
     charge_id |-> <<"ch_", data.fee_code, data.quantity>>,
     status |-> status,
     amount |-> Catalog[data.fee_code].rate * data.quantity,
     currency |-> "USD"]

ExistingCharge(data) == {c \in backendCharges : c.key = IdempotencyKey(data)}

CollaboratorOutcomes == {"captured", "declined", "timeout"}

\* one POST /fees/charge, processed atomically; collab is what the payment
\* side does if it is contacted
BackendChargeContacts(data) ==
    /\ data.fee_code \in DOMAIN Catalog
    /\ \A c \in ExistingCharge(data) : c.status # "captured"

BackendChargeRows(data, collab) ==
    IF ~BackendChargeContacts(data) THEN backendCharges
    ELSE (backendCharges \ ExistingCharge(data)) \cup
         {ChargeRecord(data,
            CASE collab = "captured" -> "captured"
              [] collab = "declined" -> "failed"
              [] OTHER -> "pending")}

BackendChargeResponse(data, collab) ==
    IF data.fee_code \notin DOMAIN Catalog
    THEN FetchResponse(FALSE, NULL, "UnknownFeeCode")
    ELSE IF ~BackendChargeContacts(data)
    THEN FetchResponse(TRUE, ChargeRecord(data, "captured"), "none")
    ELSE CASE collab = "captured" ->
                FetchResponse(TRUE, ChargeRecord(data, "captured"), "none")
           [] collab = "declined" -> FetchResponse(FALSE, NULL, "PaymentDeclined")
           [] OTHER -> FetchResponse(FALSE, NULL, "PaymentCollaboratorUnavailable")

InitApi ==
    /\ IS_DEMO_MODE \in BOOLEAN
    /\ backendCharges = {}
    /\ apiCalc = NULL
    /\ apiCharge = NULL
    /\ nApiCalls = 0

\* apiClient.calculateFee(data), from the call to the settled promise
calculateFee(data, reachable) ==
    /\ nApiCalls < MaxApiCalls
    /\ nApiCalls' = nApiCalls + 1
    /\ LET net == IF reachable THEN BackendCalculate(data) ELSE FetchThrows
           r == request("/fees/calculate", PostOptions(data), net, IS_DEMO_MODE, 0)
       IN apiCalc' = [data |-> data,
                      via |-> IF reachable THEN "backend"
                              ELSE IF IS_DEMO_MODE THEN "fallback" ELSE "none",
                      result |-> r]
    /\ UNCHANGED <<IS_DEMO_MODE, backendCharges, apiCharge>>

\* apiClient.chargeFee(data), from the call to the settled promise
chargeFee(data, reachable, collab, rnd) ==
    /\ nApiCalls < MaxApiCalls
    /\ nApiCalls' = nApiCalls + 1
    /\ LET net == IF reachable THEN BackendChargeResponse(data, collab)
                  ELSE FetchThrows
           r == request("/fees/charge", PostOptions(data), net, IS_DEMO_MODE, rnd)
       IN apiCharge' = [data |-> data,
                        via |-> IF reachable THEN "backend"
                                ELSE IF IS_DEMO_MODE THEN "fallback" ELSE "none",
                        result |-> r]
    /\ backendCharges' =
          IF reachable THEN BackendChargeRows(data, collab) ELSE backendCharges
    /\ UNCHANGED <<IS_DEMO_MODE, apiCalc>>

(***************************************************************************)
(* FATCA page (FatcaReportingPage) with its FeeDisclosure                  *)
(***************************************************************************)
VARIABLES
    showFee, status, chargeId,      \* useState of FatcaReportingPage
    fdGen,                          \* the FeeDisclosure instance mounted last
    loading, feeDetails,            \* useState of that FeeDisclosure instance
    calcInFlight,                   \* instances whose calculateFee is pending
    calcLog,                        \* settled calculateFee calls of FeeDisclosure
    inFlight,                       \* bag of the pending chargeFee fetches
    settledCalls,                   \* bag of the settled chargeFee calls
    nCharges,                       \* chargeFee calls started by handleAcceptFee
    nAccepts,                       \* presses of 'Accept & Continue'
    capturedShown                   \* the page has shown 'Payment Successful'

pageVars ==
    <<showFee, status, chargeId, fdGen, loading, feeDetails, calcInFlight,
      calcLog, inFlight, settledCalls, nCharges, nAccepts, capturedShown>>

pageVars_butInFlight ==
    <<showFee, status, chargeId, fdGen, loading, feeDetails, calcInFlight,
      calcLog, settledCalls, nCharges, nAccepts, capturedShown>>

NoChargeId == <<>>

\* props the page gives its FeeDisclosure
FdProps == [fee_code |-> FATCA, quantity |-> 1, base_amount |-> 0]

\* the argument handleAcceptFee gives chargeFee
AcceptData ==
    [fee_code |-> FATCA, quantity |-> 1, payment_method_id |-> "pm_card_visa",
     reference_type |-> "tax_report"]

\* a fetch the backend has not seen yet
NotAnswered == [kind |-> "sent", ok |-> FALSE, body |-> NULL, error |-> "none"]

\* the page renders a FeeDisclosure: status is not 'success' and showFee
FdMounted == status # "success" /\ showFee

\* the page renders the 'Generate Certified FATCA Report' button
GenerateVisible == status # "success" /\ ~showFee

\* FeeDisclosure renders its buttons (onAccept is always passed)
AcceptVisible_noNullCheck(l, details) == ~l

AcceptVisible(l, details) == ~l /\ details # NULL

DeclineVisible(l, details) ==
    ~l /\ details # NULL /\ details.is_optional

InitPage ==
    /\ showFee = FALSE
    /\ status = "idle"
    /\ chargeId = NoChargeId
    /\ fdGen = 0
    /\ loading = TRUE
    /\ feeDetails = NULL
    /\ calcInFlight = {}
    /\ calcLog = {}
    /\ inFlight = EmptyBag
    /\ settledCalls = EmptyBag
    /\ nCharges = 0
    /\ nAccepts = 0
    /\ capturedShown = FALSE

\* onClick of the Generate button: setShowFee(true); the FeeDisclosure mounts
\* and its effect starts calculateFee
ClickGenerate ==
    /\ GenerateVisible
    /\ fdGen < MaxOpens
    /\ showFee' = TRUE
    /\ fdGen' = fdGen + 1
    /\ loading' = TRUE
    /\ feeDetails' = NULL
    /\ calcInFlight' = calcInFlight \cup {fdGen + 1}
    /\ UNCHANGED <<status, chargeId, calcLog, inFlight, settledCalls, nCharges,
                   nAccepts, capturedShown>>

\* fetchFee of instance g from the await on; an unmounted instance ignores
\* its setState calls
fetchFeeSettles(g, reachable) ==
    /\ g \in calcInFlight
    /\ calcInFlight' = calcInFlight \ {g}
    /\ LET net == IF reachable THEN BackendCalculate(FdProps) ELSE FetchThrows
           r == request("/fees/calculate", PostOptions(FdProps), net,
                        IS_DEMO_MODE, 0)
       IN /\ calcLog' = calcLog \cup
                {[gen |-> g, data |-> FdProps,
                  via |-> IF reachable THEN "backend"
                          ELSE IF IS_DEMO_MODE THEN "fallback" ELSE "none",
                  result |-> r]}
          /\ IF g = fdGen /\ FdMounted
             THEN /\ feeDetails' = IF r.outcome = "resolved" THEN r.value
                                   ELSE feeDetails
                  /\ loading' = FALSE
             ELSE UNCHANGED <<feeDetails, loading>>
    /\ UNCHANGED <<showFee, status, chargeId, fdGen, inFlight, settledCalls,
                   nCharges, nAccepts, capturedShown>>

\* onDecline: setShowFee(false)
ClickDecline ==
    /\ FdMounted
    /\ DeclineVisible(loading, feeDetails)
    /\ showFee' = FALSE
    /\ UNCHANGED <<status, chargeId, fdGen, loading, feeDetails, calcInFlight,
                   calcLog, inFlight, settledCalls, nCharges, nAccepts,
                   capturedShown>>

\* handleAcceptFee up to the await: setStatus('processing') and the fetch of
\* chargeFee is started
handleAcceptFee ==
    /\ FdMounted
    /\ AcceptVisible(loading, feeDetails)
    /\ nCharges < MaxCharges
    /\ nAccepts' = nAccepts + 1
    /\ nCharges' = nCharges + 1
    /\ status' = "processing"
    /\ inFlight' = inFlight (+) SetToBag({[data |-> AcceptData, net |-> NotAnswered]})
    /\ UNCHANGED <<showFee, chargeId, fdGen, loading, feeDetails, calcInFlight,
                   calcLog, settledCalls, capturedShown>>

\* the backend processes the POST /fees/charge of the pending fetch e
BackendCharge(e, collab) ==
    /\ BagIn(e, inFlight)
    /\ e.net.kind = "sent"
    /\ inFlight' = (inFlight (-) SetToBag({e})) (+)
            SetToBag({[e EXCEPT !.net = BackendChargeResponse(e.data, collab)]})
    /\ backendCharges' = BackendChargeRows(e.data, collab)
    /\ UNCHANGED <<pageVars_butInFlight, IS_DEMO_MODE, apiCalc, apiCharge, nApiCalls>>

\* handleAcceptFee after the await: the promise r of the fetch e has settled
AcceptSettles(e, r, via) ==
    /\ inFlight' = inFlight (-) SetToBag({e})
    /\ settledCalls' = settledCalls (+)
            SetToBag({[data |-> e.data, via |-> via, result |-> r]})
    /\ IF r.outcome = "resolved"
       THEN /\ chargeId' = r.value.charge_id
            /\ status' = "success"
            /\ showFee' = FALSE
            /\ capturedShown' = TRUE
       ELSE /\ status' = "error"
            /\ UNCHANGED <<chargeId, showFee, capturedShown>>
    /\ UNCHANGED <<fdGen, loading, feeDetails, calcInFlight, calcLog, nCharges,
                   nAccepts>>

\* the backend's response to the fetch e arrives
ChargeResponseArrives(e) ==
    /\ BagIn(e, inFlight)
    /\ e.net.kind = "response"
    /\ AcceptSettles(e,
          request("/fees/charge", PostOptions(e.data), e.net, IS_DEMO_MODE, 0),
          "backend")

\* the fetch e throws: the backend is unreachable, or its response is lost
ChargeFetchThrows(e, rnd) ==
    /\ BagIn(e, inFlight)
    /\ AcceptSettles(e,
          request("/fees/charge", PostOptions(e.data), FetchThrows,
                  IS_DEMO_MODE, rnd),
          IF IS_DEMO_MODE THEN "fallback" ELSE "none")

(***************************************************************************)
(* Browser session: localStorage, the ApiClient token, AuthProvider        *)
(***************************************************************************)
VARIABLES
    apiToken,               \* ApiClient.token
    localStorage,           \* the three keys the client code uses
    authUser, authTokens,   \* useState of AuthProvider
    loginInFlight,          \* bodies of the pending fetches of AuthProvider.login
    nLogins,                \* calls of AuthProvider.login
    sentAuthorization,      \* Authorization header of the last ApiClient request
    calcHistory,            \* bag of the fee amounts calculateFee returned
    lastCall                \* the ApiClient method called last

authVars == <<apiToken, localStorage, authUser, authTokens, loginInFlight, nLogins>>

callVars == <<sentAuthorization, calcHistory, lastCall>>

STORAGE_KEYS == [USER |-> "gcc_wealth_user", TOKENS |-> "gcc_wealth_tokens"]

StorageKeys == {"auth_token", STORAGE_KEYS.USER, STORAGE_KEYS.TOKENS}

\* JSON.stringify(v): a string that parses back to v
JSONstringify(v) == [type |-> "string", value |-> v]

\* ApiClient.getToken() in the browser
getToken == IF apiToken # NULL THEN apiToken ELSE localStorage["auth_token"]

NoAuthorization == <<>>

Bearer(token) == <<"Bearer", token>>

\* the Authorization header ApiClient.request puts on its fetch
RequestAuthorization ==
    IF getToken # NULL THEN Bearer(getToken) ELSE NoAuthorization

InitSessionWith(storage) ==
    /\ apiToken = NULL
    /\ localStorage = storage
    /\ authUser = NULL
    /\ authTokens = NULL
    /\ loginInFlight = {}
    /\ nLogins = 0
    /\ sentAuthorization = NoAuthorization
    /\ calcHistory = EmptyBag
    /\ lastCall = "none"

InitSession == InitSessionWith([k \in StorageKeys |-> NULL])

(***************************************************************************)
(* Login route: POST /api/v1/auth/login                                    *)
(***************************************************************************)
VARIABLES
    loginRequest,           \* body of the last request the route handled
    loginResponse           \* its response

loginVars == <<loginRequest, loginResponse>>

\* a field the JSON body does not have
MissingField == "<undefined>"

\* the value undefined where an object is expected
undefined == [isUndefined |-> TRUE]

IsUndefined(v) == "isUndefined" \in DOMAIN v

\* property names every object literal inherits from Object.prototype
ObjectPrototypeKeys == {"constructor", "toString"}

\* what obj[key] gives for such a name: a built-in, with no fields of ours
Inherited(key) == [inherited |-> key]

IsInherited(v) == "inherited" \in DOMAIN v

\* obj[key] for an object literal obj
PropertyOf(obj, key) ==
    IF key \in DOMAIN obj THEN obj[key]
    ELSE IF key \in ObjectPrototypeKeys THEN Inherited(key)
    ELSE undefined

MockUser(id, email, full_name, bank_id, bank_slug) ==
    [id |-> id, email |-> email, password |-> "demo123",
     full_name |-> full_name, bank_id |-> bank_id, bank_slug |-> bank_slug,
     kyc_status |-> "verified", subscription_tier |-> "premium",
     is_active |-> TRUE]

MOCK_USERS ==
    [fab |-> ("demo@fab.ae" :>
                MockUser("user-fab-001", "demo@fab.ae", "Ahmed Al-Zahrani",
                         "fab-001", "fab")),
     hsbc |-> ("john@example.com" :>
                MockUser("user-hsbc-001", "john@example.com", "John Smith",
                         "hsbc-001", "hsbc")),
     rajhi |-> ("mohammed@example.com" :>
                MockUser("user-rajhi-001", "mohammed@example.com",
                         "Mohammed Al-Rajhi", "rajhi-001", "rajhi"))]
\* (full_name of the rajhi user is written in Latin letters here)

\* id of each bank in the banks route (GET /api/v1/banks)
BankIds == [fab |-> "fab-001", hsbc |-> "hsbc-001", rajhi |-> "rajhi-001"]

\* createToken(payload, expiresIn): the signed JWT, without its timestamps
createToken(payload, expiresIn) ==
    [alg |-> "HS256", payload |-> payload, expiresIn |-> expiresIn]

\* !v for a field of the body
Falsy(v) == v \in {MissingField, ""}

\* bankUsers[email] with bankUsers = MOCK_USERS[bank_slug] || {}
FindUser_anyBank(bank_slug, email) ==
    LET hits == {b \in DOMAIN MOCK_USERS : email \in DOMAIN MOCK_USERS[b]}
    IN IF hits = {} THEN undefined
       ELSE MOCK_USERS[CHOOSE b \in hits : TRUE][email]

FindUser(bank_slug, email) ==
    LET bankUsers == PropertyOf(MOCK_USERS, bank_slug)
    IN IF IsUndefined(bankUsers) \/ IsInherited(bankUsers)
       THEN IF email \in ObjectPrototypeKeys THEN Inherited(email) ELSE undefined
       ELSE PropertyOf(bankUsers, email)

\* user.password
PasswordOf(user) ==
    IF "password" \in DOMAIN user THEN user.password ELSE MissingField

\* const { password: _, ...userWithoutPassword } = user
userWithoutPassword_keepsAll(user) == user

userWithoutPassword(user) == [k \in DOMAIN user \ {"password"} |-> user[k]]

MalformedBody == [malformed |-> TRUE]

JsonResponse(statusCode, json, signed) ==
    [status |-> statusCode, body |-> json, signed |-> signed]

\* POST(request); signed is the set of tokens createToken was called for
LoginPOST(body) ==
    IF body = MalformedBody
    THEN JsonResponse(500, [code |-> "SERVER_ERROR"], {})
    ELSE IF Falsy(body.email) \/ Falsy(body.password) \/ Falsy(body.bank_slug)
    THEN JsonResponse(400, [code |-> "INVALID_REQUEST"], {})
    ELSE LET user == FindUser(body.bank_slug, body.email)
         IN IF IsUndefined(user) \/ PasswordOf(user) # body.password
            THEN JsonResponse(401, [code |-> "INVALID_CREDENTIALS"], {})
            ELSE LET accessToken ==
                        createToken([sub |-> user.id, email |-> user.email,
                                     bank_id |-> user.bank_id,
                                     bank_slug |-> user.bank_slug,
                                     type |-> "access"], "30m")
                     refreshToken ==
                        createToken([sub |-> user.id, type |-> "refresh"], "7d")
                 IN JsonResponse(200,
                        [user |-> userWithoutPassword(user),
                         tokens |-> [access_token |-> accessToken,
                                     refresh_token |-> refreshToken,
                                     token_type |-> "bearer",
                                     expires_in |-> 1800]],
                        {accessToken, refreshToken})

Emails ==
    {"demo@fab.ae", "john@example.com", "nobody@example.com", "constructor",
     "", MissingField}

Passwords == {"demo123", "wrong", "", MissingField}

BankSlugs == {"fab", "hsbc", "rajhi", "constructor", "", MissingField}

LoginBodies ==
    [email : Emails, password : Passwords, bank_slug : BankSlugs]
    \cup {MalformedBody}

InitLogin ==
    /\ loginRequest = NULL
    /\ loginResponse = NULL

\* any client posts a body to the route
LoginPOSTStep ==
    \E body \in LoginBodies :
        /\ loginRequest' = body
        /\ loginResponse' = LoginPOST(body)

(***************************************************************************)
(* AuthProvider: login and logout                                          *)
(***************************************************************************)
\* what a login form can submit
LoginAttempts ==
    {[email |-> "demo@fab.ae", password |-> "demo123", bank_slug |-> "fab"],
     [email |-> "john@example.com", password |-> "demo123", bank_slug |-> "hsbc"],
     [email |-> "demo@fab.ae", password |-> "demo123", bank_slug |-> "hsbc"],
     [email |-> "demo@fab.ae", password |-> "wrong", bank_slug |-> "fab"]}

\* login up to its await: the fetch of the login route is started
AuthLoginStart(body) ==
    /\ nLogins < MaxLogins
    /\ nLogins' = nLogins + 1
    /\ loginInFlight' = loginInFlight \cup {body}
    /\ UNCHANGED <<apiToken, localStorage, authUser, authTokens>>

\* login after its await: the fetch of body has settled
AuthLoginSettles(body, reachable) ==
    /\ body \in loginInFlight
    /\ loginInFlight' = loginInFlight \ {body}
    /\ LET response == LoginPOST(body)
       IN IF reachable /\ response.status = 200
          THEN /\ authUser' = response.body.user
               /\ authTokens' = response.body.tokens
               /\ localStorage' =
                     [localStorage EXCEPT
                        ![STORAGE_KEYS.USER] = JSONstringify(response.body.user),
                        ![STORAGE_KEYS.TOKENS] = JSONstringify(response.body.tokens)]
          ELSE UNCHANGED <<authUser, authTokens, localStorage>>
    /\ UNCHANGED <<apiToken, nLogins>>

\* logout; its fetch of the logout route is not awaited
AuthLogout ==
    /\ authUser' = NULL
    /\ authTokens' = NULL
    /\ localStorage' = [localStorage EXCEPT ![STORAGE_KEYS.USER] = NULL,
                                            ![STORAGE_KEYS.TOKENS] = NULL]
    /\ UNCHANGED <<apiToken, loginInFlight, nLogins>>

(***************************************************************************)
(* AuthProvider: mount, refreshToken and RequireAuth                       *)
(***************************************************************************)
VARIABLES
    isLoading,              \* AuthProvider's isLoading state
    refreshInFlight,        \* number of refresh fetches not yet settled
    nRefreshes,             \* calls of refreshToken that reached their fetch
    staleLogins,            \* logins in flight issued before the last logout
    staleRefreshes,         \* refresh fetches in flight issued before the
                            \* last logout
    loggedOut,              \* logout has run and no login invoked after it
                            \* has succeeded since
    guardView               \* the last render of RequireAuth

sessionVars == <<isLoading, refreshInFlight, nRefreshes, staleLogins,
                 staleRefreshes, loggedOut, guardView>>

\* a stored entry that is not JSON text
NotJson == [type |-> "text", value |-> [text |-> "{"]]

EmptyStorage == [k \in StorageKeys |-> NULL]

\* the session the login route issues for the demo user of fab
StoredSession ==
    LoginPOST([email |-> "demo@fab.ae", password |-> "demo123",
               bank_slug |-> "fab"]).body

\* what localStorage can hold when the provider mounts: nothing, the
\* session of an earlier visit, or a session whose tokens entry is damaged
StartStorages ==
    {EmptyStorage,
     [EmptyStorage EXCEPT
        ![STORAGE_KEYS.USER] = JSONstringify(StoredSession.user),
        ![STORAGE_KEYS.TOKENS] = JSONstringify(StoredSession.tokens)],
     [EmptyStorage EXCEPT
        ![STORAGE_KEYS.USER] = JSONstringify(StoredSession.user),
        ![STORAGE_KEYS.TOKENS] = NotJson]}

NotRenderedYet == [rendered |-> FALSE]

InitProvider ==
    /\ isLoading = TRUE
    /\ refreshInFlight = 0
    /\ nRefreshes = 0
    /\ staleLogins = {}
    /\ staleRefreshes = 0
    /\ loggedOut = FALSE
    /\ guardView = NotRenderedYet

\* the effect that runs once after the provider mounted
initAuth ==
    /\ isLoading
    /\ LET storedUser == localStorage[STORAGE_KEYS.USER]
           storedTokens == localStorage[STORAGE_KEYS.TOKENS]
       IN IF storedUser # NULL /\ storedTokens # NULL
          THEN LET parsedUser == JSONparse(storedUser)
                   parsedTokens == JSONparse(storedTokens)
               IN /\ authUser' = IF parsedUser.threw THEN authUser
                                 ELSE parsedUser.value
                  /\ authTokens' =
                        IF parsedUser.threw \/ parsedTokens.threw
                        THEN authTokens ELSE parsedTokens.value
                  /\ localStorage' =
                        IF parsedUser.threw \/ parsedTokens.threw
                        THEN [localStorage EXCEPT
                                ![STORAGE_KEYS.USER] = NULL,
                                ![STORAGE_KEYS.TOKENS] = NULL]
                        ELSE localStorage
          ELSE UNCHANGED <<authUser, authTokens, localStorage>>
    /\ isLoading' = FALSE
    /\ UNCHANGED <<apiToken, loginInFlight, nLogins>>

\* POST of the refresh route
RefreshPOST(body) ==
    IF body = MalformedBody
    THEN JsonResponse(500, [code |-> "SERVER_ERROR"], {})
    ELSE IF Falsy(body.refresh_token)
    THEN JsonResponse(400, [code |-> "INVALID_REQUEST"], {})
    ELSE LET accessToken == createToken([type |-> "access"], "30m")
             newRefreshToken == createToken([type |-> "refresh"], "7d")
         IN JsonResponse(200,
                [access_token |-> accessToken,
                 refresh_token |-> newRefreshToken,
                 token_type |-> "bearer",
                 expires_in |-> 1800],
                {accessToken, newRefreshToken})

\* refreshToken up to its await; without a refresh token it returns false
AuthRefreshStart ==
    /\ authTokens # NULL
    /\ "refresh_token" \in DOMAIN authTokens
    /\ nRefreshes < MaxRefreshes
    /\ nRefreshes' = nRefreshes + 1
    /\ refreshInFlight' = refreshInFlight + 1
    /\ UNCHANGED <<apiToken, localStorage, authUser, authTokens,
                   loginInFlight, nLogins>>

\* the refresh token of the render the call was made in, as the text the
\* request body carries; the route only tests that it is there
SentRefreshToken == "<jwt>"

\* refreshToken after its await: the fetch has settled
AuthRefreshSettles(reachable) ==
    /\ refreshInFlight > 0
    /\ refreshInFlight' = refreshInFlight - 1
    /\ LET response == RefreshPOST([refresh_token |-> SentRefreshToken])
       IN IF reachable /\ response.status = 200
          THEN /\ authTokens' = response.body
               /\ localStorage' =
                     [localStorage EXCEPT
                        ![STORAGE_KEYS.TOKENS] = JSONstringify(response.body)]
               /\ UNCHANGED authUser
          ELSE \* logout()
               /\ authUser' = NULL
               /\ authTokens' = NULL
               /\ localStorage' =
                     [localStorage EXCEPT ![STORAGE_KEYS.USER] = NULL,
                                          ![STORAGE_KEYS.TOKENS] = NULL]
    /\ UNCHANGED <<apiToken, loginInFlight, nLogins>>

\* isAuthenticated of the context value
IsAuthenticated_tokensOnly(user, tokens) == tokens # NULL

IsAuthenticated(user, tokens) == user # NULL /\ tokens # NULL

NoFallback == "<no fallback>"

\* what RequireAuth returns
RequireAuth(loadingNow, isAuthenticated, fallback) ==
    IF loadingNow THEN "spinner"
    ELSE IF ~isAuthenticated
    THEN IF fallback # NoFallback THEN fallback ELSE "null"
    ELSE "children"

Fallbacks == {NoFallback, "fallback"}

\* a render of RequireAuth under the provider
RenderRequireAuth(fallback) ==
    guardView' =
        [rendered |-> TRUE,
         isLoading |-> isLoading,
         hasUser |-> authUser # NULL,
         hasTokens |-> authTokens # NULL,
         isAuthenticated |-> IsAuthenticated(authUser, authTokens),
         fallback |-> fallback,
         view |-> RequireAuth(isLoading,
                              IsAuthenticated(authUser, authTokens),
                              fallback)]

(***************************************************************************)
(* Tenants: resolveTenant, TenantLayout, TenantProvider and tenant pages   *)
(***************************************************************************)
VARIABLES
    resolveCall,            \* the last call of resolveTenant and its result
    tenantRequest,          \* the last request TenantLayout served
    layoutOutcome,          \* "none", "rendered" or "notFound"
    providerConfig,         \* config of the mounted TenantProvider
    previousDir,            \* documentDir when that TenantProvider mounted
    effectPending,          \* the effect of TenantProvider has yet to run
    documentDir,            \* document.documentElement.dir
    documentLang,           \* document.documentElement.lang
    taxReports,             \* ids TaxOverviewPage lists
    quickActions            \* labels PortfolioDashboard shows

tenantVars ==
    <<resolveCall, tenantRequest, layoutOutcome, providerConfig, previousDir,
      effectPending, documentDir, documentLang, taxReports, quickActions>>

BankConfig(id, slug, country, sharia, zakat) ==
    [id |-> id, slug |-> slug, country |-> country,
     features |-> [sharia_products |-> sharia, zakat_calculator |-> zakat,
                   estate_planning |-> TRUE, goal_based_investing |-> TRUE]]

MOCK_BANKS ==
    [fab |-> BankConfig("bank-fab-001", "fab", "AE", TRUE, TRUE),
     hsbc |-> BankConfig("bank-hsbc-002", "hsbc", "AE", FALSE, FALSE),
     rajhi |-> BankConfig("bank-rajhi-003", "rajhi", "SA", TRUE, TRUE)]

\* a hostname is the sequence of its dot-separated labels
HostIncludesDot(hostname) == Len(hostname) > 1

HostIncludesLocalhost(hostname) ==
    \E i \in 1..Len(hostname) : hostname[i] \in {"localhost", "localhost:3000"}

HostIncludesVercelApp(hostname) ==
    \E i \in 1..(Len(hostname) - 1) :
        hostname[i] = "vercel" /\ hostname[i + 1] = "app"

\* a pathname is the sequence pathname.split('/') gives
StartsWithSlash(pathname) == Len(pathname) >= 2 /\ pathname[1] = ""

IsNonEmpty(segment) == segment # ""

\* pathname.split('/').filter(Boolean)
PathParts(pathname) == SelectSeq(pathname, IsNonEmpty)

\* if (MOCK_BANKS[key])
InMockBanks(key) == ~IsUndefined(PropertyOf(MOCK_BANKS, key))

\* the answers of the two API endpoints resolveTenant may fetch
ApiThrows == [kind |-> "throw"]

ApiNotOk == [kind |-> "notOk"]

ApiOk(body) == [kind |-> "ok", body |-> body]

\* tenantSlug after the three strategies
resolveSlug(hostname, pathname, apiUrl, api) ==
    LET s1 == IF /\ HostIncludesDot(hostname)
                 /\ ~HostIncludesLocalhost(hostname)
                 /\ ~HostIncludesVercelApp(hostname)
                 /\ Len(hostname) > 2
                 /\ InMockBanks(hostname[1])
              THEN hostname[1] ELSE MissingField
        s2 == IF /\ Falsy(s1)
                 /\ StartsWithSlash(pathname)
                 /\ Len(PathParts(pathname)) > 0
                 /\ InMockBanks(PathParts(pathname)[1])
              THEN PathParts(pathname)[1] ELSE s1
    IN IF Falsy(s2) /\ apiUrl /\ ~HostIncludesVercelApp(hostname)
          /\ api.resolve.kind = "ok"
       THEN api.resolve.body.slug
       ELSE s2

Returned(v) == [threw |-> FALSE, value |-> v]

NotFoundThrown == [threw |-> TRUE, value |-> NULL]

resolveTenant(hostname, pathname, apiUrl, api) ==
    LET tenantSlug == resolveSlug(hostname, pathname, apiUrl, api)
    IN IF ~Falsy(tenantSlug) /\ InMockBanks(tenantSlug)
       THEN Returned(PropertyOf(MOCK_BANKS, tenantSlug))
       ELSE IF ~Falsy(tenantSlug) /\ apiUrl /\ api.config.kind = "ok"
       THEN Returned(api.config.body)
       ELSE NotFoundThrown

\* config.slug
SlugOf(config) == IF "slug" \in DOMAIN config THEN config.slug ELSE MissingField

\* TenantLayout goes on to render: not (tenant && tenant !== config.slug)
SlugMatches_always(tenant, config) == TRUE

SlugMatches(tenant, config) == ~(~Falsy(tenant) /\ tenant # SlugOf(config))

\* the effect of TenantProvider on dir and lang
DocumentDir_noReset(config, dir) == IF config.country = "SA" THEN "rtl" ELSE dir

DocumentDir(config, dir) == IF config.country = "SA" THEN "rtl" ELSE "ltr"

DocumentLang(config) == IF config.country = "SA" THEN "ar" ELSE "en"

useTranslation(config) ==
    LET locale == IF config.country = "SA" THEN "ar" ELSE "en"
    IN [locale |-> locale, isRTL |-> locale = "ar"]

\* a page that has not rendered lists nothing
NotRendered == <<>>

\* ids of the taxReports of TaxOverviewPage
TaxReports_always(tenant) == <<"fatca", "crs", "zakat">>

TaxReports(tenant) ==
    IF tenant.features.zakat_calculator
    THEN <<"fatca", "crs", "zakat">> ELSE <<"fatca", "crs">>

\* labels of the QuickAction elements of PortfolioDashboard
QuickActions(tenant) ==
    <<"Add Account", "Create Goal", "Tax Reports">>
    \o (IF tenant.features.zakat_calculator THEN <<"Zakat Calculator">> ELSE <<>>)

Hostnames ==
    {<<"localhost:3000">>, <<"wealthplatform", "com">>,
     <<"fab", "wealthplatform", "com">>, <<"hsbc", "wealthplatform", "com">>,
     <<"www", "wealthplatform", "com">>,
     <<"constructor", "wealthplatform", "com">>,
     <<"fab", "localhost:3000">>, <<"fab", "vercel", "app">>}

\* the request has no host header
NoHostHeader == <<>>

\* values of the [tenant] segment of the URL
TenantSegments == {"fab", "hsbc", "rajhi", "nbk", "constructor", "unknown"}

Pathnames ==
    {<<"", t>> : t \in TenantSegments}
    \cup {<<"", "fab", "tax">>, <<"", "">>, <<"fab">>, <<"">>}

\* a bank only the API knows
ApiBankConfig == BankConfig("bank-nbk-004", "nbk", "KW", TRUE, TRUE)

\* NEXT_PUBLIC_API_URL set or not, and what the API answers
Environments ==
    {[apiUrl |-> FALSE, api |-> [resolve |-> ApiThrows, config |-> ApiThrows]]}
    \cup {[apiUrl |-> TRUE, api |-> a] :
            a \in [resolve : {ApiThrows, ApiNotOk, ApiOk([slug |-> "nbk"]),
                              ApiOk([slug |-> "fab"])},
                   config : {ApiThrows, ApiNotOk, ApiOk(ApiBankConfig)}]}

\* host headers of the requests for tenant pages
HostHeaders ==
    {NoHostHeader, <<"wealthplatform", "com">>,
     <<"fab", "wealthplatform", "com">>,
     <<"constructor", "wealthplatform", "com">>, <<"fab", "vercel", "app">>}

\* the environments of those requests
LayoutEnvironments ==
    {e \in Environments :
        \/ ~e.apiUrl
        \/ e.api.resolve.kind = "ok" /\ e.api.config.kind = "ok"
        \/ e.api.resolve.kind = "notOk" /\ e.api.config.kind = "throw"}

InitTenant ==
    /\ resolveCall = NULL
    /\ tenantRequest = NULL
    /\ layoutOutcome = "none"
    /\ providerConfig = NULL
    /\ previousDir = ""
    /\ effectPending = FALSE
    /\ documentDir = ""
    /\ documentLang = "en"
    /\ taxReports = NotRendered
    /\ quickActions = NotRendered

\* any caller applies resolveTenant
ResolveTenantStep ==
    \E hostname \in Hostnames, pathname \in Pathnames, env \in Environments :
        /\ resolveCall' =
              [hostname |-> hostname, pathname |-> pathname, env |-> env,
               tenantSlug |-> resolveSlug(hostname, pathname, env.apiUrl, env.api),
               result |-> resolveTenant(hostname, pathname, env.apiUrl, env.api)]
        /\ UNCHANGED <<tenantRequest, layoutOutcome, providerConfig,
                       previousDir, effectPending, documentDir, documentLang,
                       taxReports, quickActions>>

\* TenantLayout serves a request for /tenant/...
TenantLayout(hostHeader, tenant, env) ==
    LET hostname == IF hostHeader = NoHostHeader THEN <<"localhost:3000">>
                    ELSE hostHeader
        pathname == <<"", tenant>>
        config == resolveTenant(hostname, pathname, env.apiUrl, env.api)
        renders == ~config.threw /\ SlugMatches(tenant, config.value)
    IN /\ tenantRequest' = [hostname |-> hostname, tenant |-> tenant,
                            env |-> env, resolved |-> config]
       /\ layoutOutcome' = IF renders THEN "rendered" ELSE "notFound"
       /\ providerConfig' = IF renders THEN config.value ELSE NULL
       /\ previousDir' = documentDir
       /\ effectPending' = renders
       /\ taxReports' = NotRendered
       /\ quickActions' = NotRendered
       /\ UNCHANGED <<resolveCall, documentDir, documentLang>>

\* the effect of the mounted TenantProvider runs
TenantProviderEffect ==
    /\ effectPending
    /\ effectPending' = FALSE
    /\ documentDir' = DocumentDir(providerConfig, documentDir)
    /\ documentLang' = DocumentLang(providerConfig)
    /\ UNCHANGED <<resolveCall, tenantRequest, layoutOutcome, providerConfig,
                   previousDir, taxReports, quickActions>>

\* TaxOverviewPage renders under the TenantProvider
RenderTaxOverview ==
    /\ layoutOutcome = "rendered"
    /\ taxReports' = TaxReports(providerConfig)
    /\ UNCHANGED <<resolveCall, tenantRequest, layoutOutcome, providerConfig,
                   previousDir, effectPending, documentDir, documentLang,
                   quickActions>>

\* PortfolioDashboard renders under the TenantProvider
RenderDashboard ==
    /\ layoutOutcome = "rendered"
    /\ quickActions' = QuickActions(providerConfig)
    /\ UNCHANGED <<resolveCall, tenantRequest, layoutOutcome, providerConfig,
                   previousDir, effectPending, documentDir, documentLang,
                   taxReports>>

siteVars == <<callVars, authVars, tenantVars, loginVars, sessionVars>>

vars == <<zakatVars, apiVars, pageVars, siteVars>>

Init ==
    /\ InitZakat /\ InitApi /\ InitPage /\ InitSession /\ InitTenant
    /\ InitLogin /\ InitProvider

(***************************************************************************)
(* Spec: the FATCA page with the API client, the network and the backend   *)
(***************************************************************************)
FetchFeeStep ==
    \E g \in 1..MaxOpens, reachable \in BOOLEAN :
        fetchFeeSettles(g, reachable) /\ UNCHANGED <<zakatVars, apiVars, siteVars>>

BackendChargeStep ==
    \E e \in BagToSet(inFlight), collab \in CollaboratorOutcomes :
        BackendCharge(e, collab) /\ UNCHANGED <<zakatVars, siteVars>>

ChargeResponseStep ==
    \E e \in BagToSet(inFlight) :
        ChargeResponseArrives(e) /\ UNCHANGED <<zakatVars, apiVars, siteVars>>

ChargeFetchThrowsStep ==
    \E e \in BagToSet(inFlight), rnd \in RandomSuffixes :
        ChargeFetchThrows(e, rnd) /\ UNCHANGED <<zakatVars, apiVars, siteVars>>

Next ==
    \/ ClickGenerate /\ UNCHANGED <<zakatVars, apiVars, siteVars>>
    \/ FetchFeeStep
    \/ ClickDecline /\ UNCHANGED <<zakatVars, apiVars, siteVars>>
    \/ handleAcceptFee /\ UNCHANGED <<zakatVars, apiVars, siteVars>>
    \/ BackendChargeStep
    \/ ChargeResponseStep
    \/ ChargeFetchThrowsStep

Spec == Init /\ [][Next]_vars

(***************************************************************************)
(* SpecApi: a caller of apiClient.calculateFee / chargeFee with any input  *)
(***************************************************************************)
\* quantities and base amounts a caller can pass, the invalid ones included
CalcQuantities == 0..MaxQuantity

BaseAmounts == {-1, 0}

\* the entry of calcHistory for a settled calculateFee call
HistoryEntry(call) ==
    [data |-> call.data, fee_amount |-> call.result.value.fee_amount]

\* a call of apiClient.calculateFee with what request sends and returns
CalculateFeeCall(data, reachable) ==
    /\ calculateFee(data, reachable)
    /\ sentAuthorization' = RequestAuthorization
    /\ lastCall' = "calculateFee"
    /\ calcHistory' =
          IF apiCalc'.result.outcome = "resolved"
          THEN calcHistory (+) SetToBag({HistoryEntry(apiCalc')})
          ELSE calcHistory

\* a call of apiClient.chargeFee with what request sends and returns
ChargeFeeCall(data, reachable, collab, rnd) ==
    /\ chargeFee(data, reachable, collab, rnd)
    /\ sentAuthorization' = RequestAuthorization
    /\ lastCall' = "chargeFee"
    /\ UNCHANGED calcHistory

CalculateFeeStep ==
    \E fc \in FeeCodes, q \in CalcQuantities, b \in BaseAmounts,
       reachable \in BOOLEAN :
        CalculateFeeCall([fee_code |-> fc, quantity |-> q, base_amount |-> b],
                         reachable)

ChargeFeeStep ==
    \E fc \in FeeCodes, q \in Quantities, reachable \in BOOLEAN,
       collab \in CollaboratorOutcomes, rnd \in RandomSuffixes :
        ChargeFeeCall([fee_code |-> fc, quantity |-> q,
                       payment_method_id |-> "pm_card_visa",
                       reference_type |-> "tax_report"],
                      reachable, collab, rnd)

NextApi ==
    \/ CalculateFeeStep
         /\ UNCHANGED <<zakatVars, pageVars, authVars, tenantVars, loginVars, sessionVars>>
    \/ ChargeFeeStep
         /\ UNCHANGED <<zakatVars, pageVars, authVars, tenantVars, loginVars, sessionVars>>

SpecApi == Init /\ [][NextApi]_vars

(***************************************************************************)
(* SpecZakat: the Zakat calculator page and the tax route                  *)
(***************************************************************************)
NextZakat ==
    \/ UpdateAssetStep /\ UNCHANGED <<apiVars, pageVars, siteVars>>
    \/ UpdateLiabilityStep /\ UNCHANGED <<apiVars, pageVars, siteVars>>
    \/ TaxRouteGET /\ UNCHANGED <<apiVars, pageVars, siteVars>>

\* the deployment setting plays no part here
InitZakatPage == Init /\ ~IS_DEMO_MODE

SpecZakat == InitZakatPage /\ [][NextZakat]_vars

(***************************************************************************)
(* SpecAuth: a signed-in or signed-out user whose pages call the ApiClient *)
(***************************************************************************)
AuthLoginStep ==
    \E body \in LoginAttempts :
        AuthLoginStart(body)
        /\ UNCHANGED <<zakatVars, apiVars, pageVars, callVars, tenantVars, loginVars, sessionVars>>

AuthLoginSettlesStep ==
    \E body \in loginInFlight, reachable \in BOOLEAN :
        AuthLoginSettles(body, reachable)
        /\ UNCHANGED <<zakatVars, apiVars, pageVars, callVars, tenantVars, loginVars, sessionVars>>

AuthLogoutStep ==
    AuthLogout
    /\ UNCHANGED <<zakatVars, apiVars, pageVars, callVars, tenantVars, loginVars, sessionVars>>

\* the calls the FATCA page and its FeeDisclosure make
PageCalculateFeeStep ==
    \E reachable \in BOOLEAN :
        CalculateFeeCall(FdProps, reachable)
        /\ UNCHANGED <<zakatVars, pageVars, authVars, tenantVars, loginVars, sessionVars>>

PageChargeFeeStep ==
    \E reachable \in BOOLEAN, collab \in CollaboratorOutcomes :
        ChargeFeeCall(AcceptData, reachable, collab, 1)
        /\ UNCHANGED <<zakatVars, pageVars, authVars, tenantVars, loginVars, sessionVars>>

NextAuth ==
    \/ AuthLoginStep
    \/ AuthLoginSettlesStep
    \/ AuthLogoutStep
    \/ PageCalculateFeeStep
    \/ PageChargeFeeStep

SpecAuth == Init /\ [][NextAuth]_vars

(***************************************************************************)
(* SpecSession: a browser tab under AuthProvider, from the mount on        *)
(***************************************************************************)
\* the tab opens with whatever an earlier visit left in localStorage
InitStoredSession ==
    /\ InitZakat /\ InitApi /\ InitPage /\ InitTenant /\ InitLogin
    /\ InitProvider
    /\ ~IS_DEMO_MODE
    /\ \E storage \in StartStorages : InitSessionWith(storage)

SessionRest == <<zakatVars, apiVars, pageVars, callVars, tenantVars, loginVars>>

\* the mount effect has run; React runs it before it handles any event
Mounted == ~isLoading

MountStep ==
    /\ initAuth
    /\ UNCHANGED <<refreshInFlight, nRefreshes, staleLogins, staleRefreshes,
                   loggedOut, guardView>>
    /\ UNCHANGED SessionRest

SessionLoginStep ==
    \E body \in LoginAttempts :
        /\ Mounted
        /\ AuthLoginStart(body)
        /\ staleLogins' = staleLogins \ {body}
        /\ UNCHANGED <<isLoading, refreshInFlight, nRefreshes, staleRefreshes,
                       loggedOut, guardView>>
        /\ UNCHANGED SessionRest

SessionLoginSettlesStep ==
    \E body \in LoginAttempts, reachable \in BOOLEAN :
        /\ AuthLoginSettles(body, reachable)
        /\ staleLogins' = staleLogins \ {body}
        /\ loggedOut' = IF /\ reachable
                           /\ LoginPOST(body).status = 200
                           /\ body \notin staleLogins
                        THEN FALSE ELSE loggedOut
        /\ UNCHANGED <<isLoading, refreshInFlight, nRefreshes, staleRefreshes,
                       guardView>>
        /\ UNCHANGED SessionRest

\* logout has run: every request in flight was issued before it
LogoutHasRun(refreshesLeft) ==
    /\ staleLogins' = loginInFlight
    /\ staleRefreshes' = refreshesLeft
    /\ loggedOut' = TRUE

SessionLogoutStep ==
    /\ Mounted
    /\ AuthLogout
    /\ LogoutHasRun(refreshInFlight)
    /\ UNCHANGED <<isLoading, refreshInFlight, nRefreshes, guardView>>
    /\ UNCHANGED SessionRest

SessionRefreshStep ==
    /\ Mounted
    /\ AuthRefreshStart
    /\ UNCHANGED <<isLoading, staleLogins, staleRefreshes, loggedOut, guardView>>
    /\ UNCHANGED SessionRest

SessionRefreshSettlesStep ==
    \E stale \in BOOLEAN, reachable \in BOOLEAN :
        /\ IF stale THEN staleRefreshes > 0
           ELSE refreshInFlight > staleRefreshes
        /\ AuthRefreshSettles(reachable)
        /\ LET staleLeft == IF stale THEN staleRefreshes - 1 ELSE staleRefreshes
           IN IF reachable
              THEN /\ staleRefreshes' = staleLeft
                   /\ UNCHANGED <<staleLogins, loggedOut>>
              ELSE LogoutHasRun(refreshInFlight - 1)
        /\ UNCHANGED <<isLoading, nRefreshes, guardView>>
        /\ UNCHANGED SessionRest

RenderRequireAuthStep ==
    \E fallback \in Fallbacks :
        /\ RenderRequireAuth(fallback)
        /\ UNCHANGED <<authVars, isLoading, refreshInFlight, nRefreshes,
                       staleLogins, staleRefreshes, loggedOut>>
        /\ UNCHANGED SessionRest

NextSession ==
    \/ MountStep
    \/ SessionLoginStep
    \/ SessionLoginSettlesStep
    \/ SessionLogoutStep
    \/ SessionRefreshStep
    \/ SessionRefreshSettlesStep
    \/ RenderRequireAuthStep

SpecSession == InitStoredSession /\ [][NextSession]_vars

(***************************************************************************)
(* SpecLogin: clients of the login route                                   *)
(***************************************************************************)
\* the setting of the API client plays no part in the three specifications
\* that follow
InitSite == Init /\ ~IS_DEMO_MODE

NextLogin ==
    LoginPOSTStep
    /\ UNCHANGED <<zakatVars, apiVars, pageVars, callVars, authVars, tenantVars, sessionVars>>

SpecLogin == InitSite /\ [][NextLogin]_vars

(***************************************************************************)
(* SpecResolve: callers of resolveTenant                                   *)
(***************************************************************************)
NextResolve ==
    ResolveTenantStep
    /\ UNCHANGED <<zakatVars, apiVars, pageVars, callVars, authVars, loginVars, sessionVars>>

SpecResolve == InitSite /\ [][NextResolve]_vars

(***************************************************************************)
(* SpecTenant: requests for tenant pages                                   *)
(***************************************************************************)
TenantLayoutStep ==
    \E hostHeader \in HostHeaders, tenant \in TenantSegments,
       env \in LayoutEnvironments :
        TenantLayout(hostHeader, tenant, env)
        /\ UNCHANGED <<zakatVars, apiVars, pageVars, callVars, authVars, loginVars, sessionVars>>

NextTenant ==
    \/ TenantLayoutStep
    \/ TenantProviderEffect
         /\ UNCHANGED <<zakatVars, apiVars, pageVars, callVars, authVars, loginVars, sessionVars>>
    \/ RenderTaxOverview
         /\ UNCHANGED <<zakatVars, apiVars, pageVars, callVars, authVars, loginVars, sessionVars>>
    \/ RenderDashboard
         /\ UNCHANGED <<zakatVars, apiVars, pageVars, callVars, authVars, loginVars, sessionVars>>

SpecTenant == InitSite /\ [][NextTenant]_vars

(***************************************************************************)
(* Properties                                                              *)
(***************************************************************************)
\* the settled chargeFee calls that returned a charge
ResolvedCalls == {c \in BagToSet(settledCalls) : c.result.outcome = "resolved"}

\* charge records with status 'captured' that exist for the FATCA report: the
\* backend's rows and the records the demo fallback handed out
CapturedCount ==
    Cardinality({c \in backendCharges : c.status = "captured"})
    + BagCardinality(
        [c \in {x \in ResolvedCalls : x.via = "fallback"} |-> settledCalls[c]])

\* what the page reports for a settled call
Reported(c) ==
    IF c.result.outcome = "resolved" THEN c.result.value.status ELSE "failed"

\* C1: idempotent charging: any two chargeFee invocations of handleAcceptFee
\* for the report that return a charge return the same charge record (same
\* charge_id), the later one being the first one's result.
C1_IdempotentCharging ==
    \A c, d \in ResolvedCalls :
        c.result.value.charge_id = d.result.value.charge_id

\* C2: under concurrent duplicate requests at most one captured charge ever
\* exists for the report.
C2_AtMostOneCapture == CapturedCount <= 1

\* C3: once the page has shown a captured charge (status 'success'), no step
\* starts another chargeFee call.
C3_CapturedNeverRetried ==
    [][capturedShown => nCharges' = nCharges]_vars

\* C4: a charge outcome is never assumed: a call whose fetch threw (backend
\* unreachable, timeout, response lost) stays pending, reported neither as
\* captured nor as failed, and 'Payment Successful' is shown only for a
\* charge the backend answered.
C4_OutcomeNeverAssumed ==
    /\ \A c \in BagToSet(settledCalls) :
          c.via \in {"fallback", "none"} => Reported(c) = "pending"
    /\ status = "success" => \E c \in ResolvedCalls : c.via = "backend"

\* C5: every step that starts a chargeFee call is a press of 'Accept &
\* Continue' in a FeeDisclosure whose calculateFee completed successfully for
\* the same fee_code and quantity; a press of 'Decline' (the step that hides
\* the disclosure without a charge result) starts no call, and no call
\* exists without a press of Accept.
C5_ChargeOnlyAfterAcceptance ==
    [][/\ nCharges' # nCharges =>
            /\ nAccepts' = nAccepts + 1
            /\ nCharges' = nCharges + 1
            /\ \E c \in calcLog, e \in BagToSet(inFlight') :
                  /\ CopiesIn(e, inFlight') = CopiesIn(e, inFlight) + 1
                  /\ c.gen = fdGen
                  /\ c.result.outcome = "resolved"
                  /\ c.data.fee_code = e.data.fee_code
                  /\ c.data.quantity = e.data.quantity
       /\ (showFee /\ ~showFee' /\ status' = status) => nCharges' = nCharges
       /\ nCharges' <= nAccepts'
       /\ BagCardinality(inFlight') + BagCardinality(settledCalls') = nCharges'
      ]_vars

\* a charge was started after acceptance, the disclosure was then declined
\* and opened again, its calculation failed, and no further charge came of it
C5_Witness ==
    /\ nCharges = 1
    /\ nAccepts = 1
    /\ ~capturedShown
    /\ fdGen = 2
    /\ \E c \in calcLog : c.gen = 2 /\ c.result.outcome = "rejected"

\* C6: the amount chargeFee returns equals the fee_amount calculateFee
\* returned for the same fee_code and quantity.
C6_ChargeAmountEqualsCalculated ==
    (/\ apiCalc # NULL
     /\ apiCharge # NULL
     /\ apiCalc.result.outcome = "resolved"
     /\ apiCharge.result.outcome = "resolved"
     /\ apiCalc.data.fee_code = apiCharge.data.fee_code
     /\ apiCalc.data.quantity = apiCharge.data.quantity)
    => apiCharge.result.value.amount = apiCalc.result.value.fee_amount

\* the six assets minus the three liabilities, entry by entry
ExplicitNet ==
    assets["cash_bank"] + assets["gold_silver"] + assets["investments"]
    + assets["business_assets"] + assets["receivables"]
    + assets["real_estate_rental"]
    - liabilities["short_term_debts"] - liabilities["loans"]
    - liabilities["credit_cards"]

\* C7: zakatDue is 0 when the net zakatable wealth is below the nisab
\* threshold and 2.5% of it otherwise, the threshold counting as met; the
\* mock data (267,000 and 17,000) give 6,250.
C7_ZakatDue ==
    /\ ExplicitNet < nisab_threshold => zakatDue = 0 /\ ~nisabMet
    /\ ExplicitNet >= nisab_threshold => zakatDue = ExplicitNet * 25 /\ nisabMet
    /\ (totalAssets = 267000 /\ totalLiabilities = 17000) => zakatDue = 6250000

\* after an update the net wealth is exactly the threshold and Zakat is due
C7_Witness ==
    /\ nUpdates > 0
    /\ netZakatableWealth = nisab_threshold
    /\ nisabMet
    /\ zakatDue = nisab_threshold * 25

\* C8: netZakatableWealth is always the sum of the six assets minus the sum
\* of the three liabilities, and an update sets the named entry to the given
\* value and leaves every other asset and liability as it was.
C8_NetWealthAndUpdates ==
    /\ [](netZakatableWealth = ExplicitNet)
    /\ [][nUpdates' # nUpdates =>
            /\ \A k \in AssetKeys :
                  assets'[k] =
                     IF lastUpdate'.map = "assets" /\ lastUpdate'.key = k
                     THEN lastUpdate'.value ELSE assets[k]
            /\ \A k \in LiabilityKeys :
                  liabilities'[k] =
                     IF lastUpdate'.map = "liabilities" /\ lastUpdate'.key = k
                     THEN lastUpdate'.value ELSE liabilities[k]
         ]_vars

\* an asset and then a liability were updated
C8_Witness ==
    /\ nUpdates >= 2
    /\ lastUpdate # NULL
    /\ lastUpdate.map = "liabilities"
    /\ assets # mockAssets
    /\ liabilities # mockLiabilities
    /\ netZakatableWealth # 250000

\* gold prices per gram, in cents, a configuration can hold
GoldPricesPerGram == 1..MaxGoldPrice

\* 85 grams at p cents per gram, in whole dollars
NisabFromGoldPrice(p) == (NisabGrams * p + 50) \div 100

\* C9: every Zakat computation uses the threshold derived from the configured
\* gold price: there is a price per gram p such that the calculator page and
\* the tax route both use 85 grams x p.
C9_NisabDerivedFromGoldPrice ==
    \E p \in GoldPricesPerGram :
        /\ nisabUsed = NisabFromGoldPrice(p)
        /\ taxRouteResponse # NULL =>
              taxRouteResponse.nisab_threshold = NisabFromGoldPrice(p)

\* C10: a calculateFee of FeeDisclosure for TAX_REPORT_FATCA, quantity 1,
\* base_amount 0 that is served by the backend or by the demo fallback yields
\* fee_amount 19.99 with is_optional true.
C10_FatcaFeeCalculation ==
    \A c \in calcLog :
        c.via \in {"backend", "fallback"} =>
            /\ c.result.outcome = "resolved"
            /\ c.result.value.fee_amount = 1999
            /\ c.result.value.is_optional

InvalidInputErrors(data) ==
    (IF data.fee_code \notin DOMAIN Catalog THEN {"UnknownFeeCode"} ELSE {})
    \cup (IF data.quantity <= 0 THEN {"InvalidQuantity"} ELSE {})
    \cup (IF data.base_amount < 0 THEN {"NegativeBaseAmount"} ELSE {})

\* C12: a calculateFee call with an unknown fee_code, a quantity <= 0 or a
\* negative base_amount that is served (by the backend or by the demo
\* fallback) ends in the error UnknownFeeCode, InvalidQuantity or
\* NegativeBaseAmount its input calls for and returns no fee amount.
C12_InvalidInputsRejected ==
    (/\ apiCalc # NULL
     /\ apiCalc.via \in {"backend", "fallback"}
     /\ InvalidInputErrors(apiCalc.data) # {})
    => /\ apiCalc.result.outcome = "rejected"
       /\ apiCalc.result.error \in InvalidInputErrors(apiCalc.data)

\* the banks the platform knows, by slug
KnownBanks == {"fab", "hsbc", "rajhi"}

\* the hostname names a bank by its subdomain
SubdomainNamesBank(hostname) ==
    /\ Len(hostname) > 2
    /\ ~HostIncludesLocalhost(hostname)
    /\ ~HostIncludesVercelApp(hostname)
    /\ hostname[1] \in KnownBanks

\* the pathname names a bank by its first segment
PathNamesBank(pathname) ==
    /\ StartsWithSlash(pathname)
    /\ Len(PathParts(pathname)) > 0
    /\ PathParts(pathname)[1] \in KnownBanks

\* C13: resolveTenant returns the configuration of bank s when the hostname
\* has more than two labels, is no localhost or vercel.app host and its first
\* label s is a known bank; otherwise it returns the configuration of the
\* known bank the first path segment names; the subdomain's bank wins over
\* the path's.
C13_SubdomainThenPath ==
    resolveCall # NULL =>
        /\ SubdomainNamesBank(resolveCall.hostname) =>
              resolveCall.result = Returned(MOCK_BANKS[resolveCall.hostname[1]])
        /\ (~SubdomainNamesBank(resolveCall.hostname)
            /\ PathNamesBank(resolveCall.pathname)) =>
              resolveCall.result =
                 Returned(MOCK_BANKS[PathParts(resolveCall.pathname)[1]])

\* the pair (email, password) belongs to a user registered under bank_slug
Registered(bank_slug, email, password) ==
    /\ bank_slug \in KnownBanks
    /\ email \in DOMAIN MOCK_USERS[bank_slug]
    /\ MOCK_USERS[bank_slug][email].password = password

\* C14: the login route answers 200 with tokens only if (email, password)
\* belongs to a user registered under the given bank_slug; valid credentials
\* of a user of one bank given with another bank_slug get 401; and the access
\* token of a 200 carries the bank_slug asked for and the bank_id of that bank.
C14_LoginBankIsolation ==
    (loginResponse # NULL /\ loginRequest # MalformedBody) =>
        /\ loginResponse.status = 200 =>
              Registered(loginRequest.bank_slug, loginRequest.email,
                         loginRequest.password)
        /\ (/\ ~Falsy(loginRequest.bank_slug)
            /\ \E b \in KnownBanks \ {loginRequest.bank_slug} :
                  Registered(b, loginRequest.email, loginRequest.password))
           => /\ loginResponse.status = 401
              /\ loginResponse.signed = {}
        /\ loginResponse.status = 200 =>
              /\ loginResponse.body.tokens.access_token.payload.bank_slug
                    = loginRequest.bank_slug
              /\ loginResponse.body.tokens.access_token.payload.bank_id
                    = BankIds[loginRequest.bank_slug]

\* the credentials of the fab user were presented under hsbc and refused
C14_Witness ==
    /\ loginResponse # NULL
    /\ loginRequest =
          [email |-> "demo@fab.ae", password |-> "demo123", bank_slug |-> "hsbc"]
    /\ loginResponse.status = 401

\* seq lists item
Lists(seq, item) == \E i \in 1..Len(seq) : seq[i] = item

\* C15: the tax overview lists the Zakat entry and the dashboard shows the
\* Zakat quick action exactly when features.zakat_calculator of the tenant is
\* true: for fab and rajhi they do, for hsbc they do not.
C15_ZakatFeatureFlag ==
    layoutOutcome = "rendered" =>
        /\ taxReports # NotRendered =>
              /\ Lists(taxReports, "zakat")
                    <=> providerConfig.features.zakat_calculator
              /\ providerConfig.slug \in {"fab", "rajhi"} =>
                    Lists(taxReports, "zakat")
              /\ providerConfig.slug = "hsbc" => ~Lists(taxReports, "zakat")
        /\ quickActions # NotRendered =>
              /\ Lists(quickActions, "Zakat Calculator")
                    <=> providerConfig.features.zakat_calculator
              /\ providerConfig.slug \in {"fab", "rajhi"} =>
                    Lists(quickActions, "Zakat Calculator")
              /\ providerConfig.slug = "hsbc" =>
                    ~Lists(quickActions, "Zakat Calculator")

\* both pages rendered for hsbc
C15_Witness ==
    /\ layoutOutcome = "rendered"
    /\ providerConfig.slug = "hsbc"
    /\ taxReports # NotRendered
    /\ quickActions # NotRendered

\* C16: once the effect of TenantProvider has run, the document direction is
\* 'rtl' and the language 'ar' if and only if the tenant's country is 'SA'
\* (otherwise 'ltr' and 'en'), also after an SA tenant; useTranslation gives
\* locale 'ar' and isRTL true if and only if the country is 'SA'.
C16_RtlForSaudiTenants ==
    layoutOutcome = "rendered" =>
        /\ useTranslation(providerConfig).locale =
              IF providerConfig.country = "SA" THEN "ar" ELSE "en"
        /\ useTranslation(providerConfig).isRTL <=> providerConfig.country = "SA"
        /\ ~effectPending =>
              /\ documentDir = IF providerConfig.country = "SA" THEN "rtl" ELSE "ltr"
              /\ documentLang = IF providerConfig.country = "SA" THEN "ar" ELSE "en"
              /\ useTranslation(providerConfig).locale = documentLang
              /\ useTranslation(providerConfig).isRTL <=> documentDir = "rtl"

\* a tenant outside Saudi Arabia mounted on a right-to-left document and its
\* effect has run
C16_Witness ==
    /\ layoutOutcome = "rendered"
    /\ ~effectPending
    /\ previousDir = "rtl"
    /\ providerConfig.country # "SA"
    /\ documentDir = "ltr"

\* C17: every request of the ApiClient carries 'Authorization: Bearer' with
\* the access_token of the session AuthProvider.login opened, and carries no
\* Authorization when there is no such session.
C17_RequestsCarrySessionToken ==
    [][nApiCalls' # nApiCalls =>
          sentAuthorization' =
             IF authTokens # NULL THEN Bearer(authTokens.access_token)
             ELSE NoAuthorization
      ]_vars

\* C18: TenantLayout renders tenant content only when resolveTenant returned
\* a configuration whose slug is the tenant segment of the URL; when the
\* resolution fails or gives another bank, the request ends in notFound and
\* nothing of the tenant is rendered.
C18_LayoutRendersMatchingTenantOnly ==
    tenantRequest # NULL =>
        /\ layoutOutcome \in {"rendered", "notFound"}
        /\ layoutOutcome = "rendered" =>
              /\ ~tenantRequest.resolved.threw
              /\ SlugOf(tenantRequest.resolved.value) = tenantRequest.tenant
              /\ providerConfig = tenantRequest.resolved.value
        /\ (\/ tenantRequest.resolved.threw
            \/ SlugOf(tenantRequest.resolved.value) # tenantRequest.tenant)
           => /\ layoutOutcome = "notFound"
              /\ providerConfig = NULL
              /\ ~effectPending
              /\ taxReports = NotRendered
              /\ quickActions = NotRendered

\* the subdomain named fab, the path hsbc, and the request ended in notFound
C18_Witness ==
    /\ tenantRequest # NULL
    /\ tenantRequest.hostname = <<"fab", "wealthplatform", "com">>
    /\ tenantRequest.tenant = "hsbc"
    /\ ~tenantRequest.resolved.threw
    /\ layoutOutcome = "notFound"

\* C19: when neither the subdomain nor the first path segment names a known
\* bank and no API lookup succeeds, resolveTenant ends in notFound and
\* returns nothing; and what it returns from the built-in bank table has the
\* resolved slug as its slug.
C19_NoDefaultTenant ==
    resolveCall # NULL =>
        /\ (/\ ~SubdomainNamesBank(resolveCall.hostname)
            /\ ~PathNamesBank(resolveCall.pathname)
            /\ (~resolveCall.env.apiUrl
                \/ resolveCall.env.api.resolve.kind # "ok"))
           => resolveCall.result.threw
        /\ (/\ ~resolveCall.result.threw
            /\ ~Falsy(resolveCall.tenantSlug)
            /\ InMockBanks(resolveCall.tenantSlug))
           => SlugOf(resolveCall.result.value) = resolveCall.tenantSlug

\* C20: the login route answers 400 INVALID_REQUEST when email, password or
\* bank_slug is missing or empty and 401 INVALID_CREDENTIALS when the email is
\* unknown or the password does not match; it creates no token in these
\* cases, and the user of a 200 response has no password.
C20_LoginValidation ==
    (loginResponse # NULL /\ loginRequest # MalformedBody) =>
        /\ (\/ Falsy(loginRequest.email)
            \/ Falsy(loginRequest.password)
            \/ Falsy(loginRequest.bank_slug))
           => /\ loginResponse.status = 400
              /\ loginResponse.body.code = "INVALID_REQUEST"
              /\ loginResponse.signed = {}
        /\ (/\ ~Falsy(loginRequest.email)
            /\ ~Falsy(loginRequest.password)
            /\ ~Falsy(loginRequest.bank_slug)
            /\ ~Registered(loginRequest.bank_slug, loginRequest.email,
                           loginRequest.password))
           => /\ loginResponse.status = 401
              /\ loginResponse.body.code = "INVALID_CREDENTIALS"
              /\ loginResponse.signed = {}
        /\ loginResponse.status = 200 =>
              "password" \notin DOMAIN loginResponse.body.user

\* the right email of the right bank with a wrong password got 401
C20_Witness ==
    /\ loginResponse # NULL
    /\ loginRequest =
          [email |-> "demo@fab.ae", password |-> "wrong", bank_slug |-> "fab"]
    /\ loginResponse.status = 401
    /\ loginResponse.signed = {}


(***************************************************************************)
(* C21: RequireAuth renders its children only when isLoading is false and  *)
(* isAuthenticated is true; isAuthenticated is true exactly when user and  *)
(* tokens are both non-null; while loading it renders the spinner, and     *)
(* when not loading and not authenticated it renders the fallback, or      *)
(* nothing when no fallback was given.                                     *)
(***************************************************************************)
C21_RequireAuthProtectsChildren ==
    guardView.rendered =>
        /\ (guardView.view = "children") =>
              (~guardView.isLoading /\ guardView.isAuthenticated)
        /\ guardView.isAuthenticated <=>
              (guardView.hasUser /\ guardView.hasTokens)
        /\ guardView.isLoading => (guardView.view = "spinner")
        /\ (~guardView.isLoading /\ ~guardView.isAuthenticated) =>
              guardView.view = (IF guardView.fallback = NoFallback
                                THEN "null" ELSE guardView.fallback)

\* the children were rendered for a signed-in user
C21_Witness ==
    /\ guardView.rendered
    /\ guardView.view = "children"
    /\ authUser # NULL
    /\ authTokens # NULL
    /\ ~isLoading

\* the logout is in force: nothing of the session is left
SessionCleared ==
    /\ authUser = NULL
    /\ authTokens = NULL
    /\ localStorage[STORAGE_KEYS.USER] = NULL
    /\ localStorage[STORAGE_KEYS.TOKENS] = NULL

(***************************************************************************)
(* C22: after logout has run, user and tokens are null and both storage    *)
(* keys are absent, and they stay so until a login invoked after that      *)
(* logout succeeds; a response to a login or refresh request issued before *)
(* the logout restores nothing.                                            *)
(***************************************************************************)
C22_LogoutFinalUntilNextLogin == loggedOut => SessionCleared

====
